---- MODULE Spec2Model ----
(***************************************************************************)
(* Training-load core of the fitness agent: the risk rule engine           *)
(* (app/flags/risk_flags.py), the metrics aggregator                       *)
(* (app/metrics/compute_metrics.py) and the ingestion adapters             *)
(* (app/io/csv_parser.py, app/io/fit_parser.py), as state machines that    *)
(* draw an input, apply the function and keep its result.                  *)
(*                                                                         *)
(* Numbers.  A Python number is a value record [t, n, items] that holds in *)
(* n the integer itself (t = "int") or the float written with two         *)
(* decimals, in hundredths (t = "float"); Hundredths gives both on one     *)
(* scale.  The float is the binary64 number nearest to the decimal, and    *)
(* where the source adds, multiplies, divides or rounds floats the model   *)
(* computes the binary64 result.  Comparing two such floats is comparing   *)
(* their decimals, since distinct decimals have distinct nearest floats,   *)
(* in the same order: acwr >= 1.5 reads Hundredths(acwr) >= 150.           *)
(***************************************************************************)
EXTENDS Integers, Sequences, FiniteSets, TLC

VARIABLES
  pc,            \* the call that is next: "input", "trend", "runs", "file"; then "done"
  metrics,       \* the metrics mapping handed to evaluate_risk_flags
  assessment,    \* the RiskAssessment returned (or the raise) of the last call
  locals,        \* flags, limitations and details of evaluate_risk_flags
                 \* when the call ended, by return or by raise
  weekly,        \* argument of _trend_is_flat_or_decreasing
  trend,         \* its result
  runs_all,      \* argument of compute_metrics: the run list
  lookback_days, \* argument of compute_metrics
  snapshot,      \* the mapping returned by compute_metrics, with its locals
  file,          \* argument of parse_garmin_csv / parse_garmin_fit: the file
  parsed         \* the run list returned by the parser (or its raise)

vars == <<pc, metrics, assessment, locals, weekly, trend, runs_all,
          lookback_days, snapshot, file, parsed>>

----------------------------------------------------------------------------
(* Bounds of the model *)

\* longest weekly_distance list drawn as an input of evaluate_risk_flags
MaxWeeks == 3
\* longest list drawn as an input of _trend_is_flat_or_decreasing
MaxTrendLen == 4
\* longest run list drawn as an input of compute_metrics
MaxRuns == 4
\* longest training history drawn as an input of compute_metrics
MaxHistory == 4
\* most rows of a CSV file drawn as an input of parse_garmin_csv
MaxRows == 2
\* most session and activity messages of a FIT file drawn as an input of
\* parse_garmin_fit
MaxSessions == 2
MaxActivities == 1

----------------------------------------------------------------------------
(* Python values *)

Val(t, n) == [t |-> t, n |-> n, items |-> <<>>]
Absent == Val("absent", 0)       \* the key is not in the mapping
None == Val("none", 0)
PyStr == Val("str", 0)           \* a str that float() rejects, e.g. "n/a"
PyInt(n) == Val("int", n)
PyFloat(h) == Val("float", h)    \* the float h / 100
PyList(s) == [t |-> "list", n |-> 0, items |-> s]

NumberTypes == {"int", "float"}

\* the value of a number, in hundredths
Hundredths(x) == IF x.t = "int" THEN 100 * x.n ELSE x.n

\* float(x) succeeds (it raises TypeError on None, ValueError on the str)
FloatOk(x) == x.t \in NumberTypes

\* metrics.get(key, 0) in place of the `key not in metrics` guard
GetDefaultZero(m, key, expected_type) ==
  LET val == IF m[key].t = "absent" THEN PyInt(0) ELSE m[key]
  IN IF val.t \in expected_type THEN val ELSE None

\* metrics.get(key) guarded by `key not in metrics` and isinstance
\* (expected_type is the set of accepted type tags)
_get(m, key, expected_type) ==
  IF m[key].t = "absent" THEN None
  ELSE IF m[key].t \in expected_type THEN m[key] ELSE None

----------------------------------------------------------------------------
(* Strings: code points, lexicographic order, sorted() *)

CodePoints(s) ==
  CASE s = "" -> <<>>
    [] s = "volume_spike" ->
       <<118, 111, 108, 117, 109, 101, 95, 115, 112, 105, 107, 101>>
    [] s = "undertraining" ->
       <<117, 110, 100, 101, 114, 116, 114, 97, 105, 110, 105, 110, 103>>
    [] s = "long_run_dominance" ->
       <<108, 111, 110, 103, 95, 114, 117, 110, 95, 100, 111, 109, 105, 110,
         97, 110, 99, 101>>
    [] s = "insufficient_easy_running" ->
       <<105, 110, 115, 117, 102, 102, 105, 99, 105, 101, 110, 116, 95, 101,
         97, 115, 121, 95, 114, 117, 110, 110, 105, 110, 103>>
    [] s = "excessive_hard_running" ->
       <<101, 120, 99, 101, 115, 115, 105, 118, 101, 95, 104, 97, 114, 100,
         95, 114, 117, 110, 110, 105, 110, 103>>
    [] s = "insufficient_recovery" ->
       <<105, 110, 115, 117, 102, 102, 105, 99, 105, 101, 110, 116, 95, 114,
         101, 99, 111, 118, 101, 114, 121>>
    [] s = "Missing acwr and weekly_distance; cannot assess volume spikes reliably." ->
       <<77, 105, 115, 115, 105, 110, 103, 32, 97, 99, 119, 114, 32, 97, 110,
         100, 32, 119, 101, 101, 107, 108, 121, 95, 100, 105, 115, 116, 97,
         110, 99, 101, 59, 32, 99, 97, 110, 110, 111, 116, 32, 97, 115, 115,
         101, 115, 115, 32, 118, 111, 108, 117, 109, 101, 32, 115, 112, 105,
         107, 101, 115, 32, 114, 101, 108, 105, 97, 98, 108, 121, 46>>
    [] s = "weekly_distance values invalid; spike check skipped." ->
       <<119, 101, 101, 107, 108, 121, 95, 100, 105, 115, 116, 97, 110, 99,
         101, 32, 118, 97, 108, 117, 101, 115, 32, 105, 110, 118, 97, 108,
         105, 100, 59, 32, 115, 112, 105, 107, 101, 32, 99, 104, 101, 99,
         107, 32, 115, 107, 105, 112, 112, 101, 100, 46>>
    [] s = "Missing acwr or sufficient weekly_distance; undertraining check may be incomplete." ->
       <<77, 105, 115, 115, 105, 110, 103, 32, 97, 99, 119, 114, 32, 111,
         114, 32, 115, 117, 102, 102, 105, 99, 105, 101, 110, 116, 32, 119,
         101, 101, 107, 108, 121, 95, 100, 105, 115, 116, 97, 110, 99, 101,
         59, 32, 117, 110, 100, 101, 114, 116, 114, 97, 105, 110, 105, 110,
         103, 32, 99, 104, 101, 99, 107, 32, 109, 97, 121, 32, 98, 101, 32,
         105, 110, 99, 111, 109, 112, 108, 101, 116, 101, 46>>
    [] s = "Missing longest_run_pct; cannot assess long-run dominance." ->
       <<77, 105, 115, 115, 105, 110, 103, 32, 108, 111, 110, 103, 101, 115,
         116, 95, 114, 117, 110, 95, 112, 99, 116, 59, 32, 99, 97, 110, 110,
         111, 116, 32, 97, 115, 115, 101, 115, 115, 32, 108, 111, 110, 103,
         45, 114, 117, 110, 32, 100, 111, 109, 105, 110, 97, 110, 99, 101,
         46>>
    [] s = "longest_run_pct invalid; long-run dominance check skipped." ->
       <<108, 111, 110, 103, 101, 115, 116, 95, 114, 117, 110, 95, 112, 99,
         116, 32, 105, 110, 118, 97, 108, 105, 100, 59, 32, 108, 111, 110,
         103, 45, 114, 117, 110, 32, 100, 111, 109, 105, 110, 97, 110, 99,
         101, 32, 99, 104, 101, 99, 107, 32, 115, 107, 105, 112, 112, 101,
         100, 46>>
    [] s = "Missing easy_pct; cannot assess easy-running balance." ->
       <<77, 105, 115, 115, 105, 110, 103, 32, 101, 97, 115, 121, 95, 112,
         99, 116, 59, 32, 99, 97, 110, 110, 111, 116, 32, 97, 115, 115, 101,
         115, 115, 32, 101, 97, 115, 121, 45, 114, 117, 110, 110, 105, 110,
         103, 32, 98, 97, 108, 97, 110, 99, 101, 46>>
    [] s = "easy_pct invalid; easy-running balance check skipped." ->
       <<101, 97, 115, 121, 95, 112, 99, 116, 32, 105, 110, 118, 97, 108,
         105, 100, 59, 32, 101, 97, 115, 121, 45, 114, 117, 110, 110, 105,
         110, 103, 32, 98, 97, 108, 97, 110, 99, 101, 32, 99, 104, 101, 99,
         107, 32, 115, 107, 105, 112, 112, 101, 100, 46>>
    [] s = "Missing hard_pct; cannot assess hard-running proportion." ->
       <<77, 105, 115, 115, 105, 110, 103, 32, 104, 97, 114, 100, 95, 112,
         99, 116, 59, 32, 99, 97, 110, 110, 111, 116, 32, 97, 115, 115, 101,
         115, 115, 32, 104, 97, 114, 100, 45, 114, 117, 110, 110, 105, 110,
         103, 32, 112, 114, 111, 112, 111, 114, 116, 105, 111, 110, 46>>
    [] s = "hard_pct invalid; hard-running proportion check skipped." ->
       <<104, 97, 114, 100, 95, 112, 99, 116, 32, 105, 110, 118, 97, 108,
         105, 100, 59, 32, 104, 97, 114, 100, 45, 114, 117, 110, 110, 105,
         110, 103, 32, 112, 114, 111, 112, 111, 114, 116, 105, 111, 110, 32,
         99, 104, 101, 99, 107, 32, 115, 107, 105, 112, 112, 101, 100, 46>>
    [] s = "Missing rest_days_last_14 and back_to_back_runs_last_14; cannot assess recovery density." ->
       <<77, 105, 115, 115, 105, 110, 103, 32, 114, 101, 115, 116, 95, 100,
         97, 121, 115, 95, 108, 97, 115, 116, 95, 49, 52, 32, 97, 110, 100,
         32, 98, 97, 99, 107, 95, 116, 111, 95, 98, 97, 99, 107, 95, 114,
         117, 110, 115, 95, 108, 97, 115, 116, 95, 49, 52, 59, 32, 99, 97,
         110, 110, 111, 116, 32, 97, 115, 115, 101, 115, 115, 32, 114, 101,
         99, 111, 118, 101, 114, 121, 32, 100, 101, 110, 115, 105, 116, 121,
         46>>

RECURSIVE LexLess(_, _)
LexLess(a, b) ==
  IF b = <<>> THEN FALSE
  ELSE IF a = <<>> THEN TRUE
  ELSE IF Head(a) # Head(b) THEN Head(a) < Head(b)
  ELSE LexLess(Tail(a), Tail(b))

\* Python's str < str
StrLess(s, t) == LexLess(CodePoints(s), CodePoints(t))

SeqToSet(s) == {s[i] : i \in 1..Len(s)}

\* insert x before the first element greater than it (stable)
RECURSIVE Insert(_, _)
Insert(s, x) ==
  IF s = <<>> THEN <<x>>
  ELSE IF StrLess(x, Head(s)) THEN <<x>> \o s
  ELSE <<Head(s)>> \o Insert(Tail(s), x)

\* the list as it was built, in the order the rules ran
NotSorted(s) == s

\* sorted(list of str)
RECURSIVE sorted(_)
sorted(s) ==
  IF s = <<>> THEN <<>> ELSE Insert(sorted(SubSeq(s, 1, Len(s) - 1)), s[Len(s)])

\* sorted(set(s))
RECURSIVE SortedSet(_)
SortedSet(S) ==
  IF S = {} THEN <<>>
  ELSE LET m == CHOOSE x \in S : \A y \in S \ {x} : StrLess(x, y)
       IN <<m>> \o SortedSet(S \ {m})

----------------------------------------------------------------------------
(* Python floats: IEEE-754 binary64, round to nearest, ties to even *)
(*                                                                         *)
(* A natural number wider than an integer of the checker is a sequence of  *)
(* limbs of 15 bits, least significant first, without a zero at its top.   *)
(* A float is [s, m, e], the number s * m * 2^e with the sign s (1 or -1)  *)
(* and the natural number m <= 2^53 in limbs; one number may have several  *)
(* such records, and FlCmp compares the numbers.  Exponents stay far from  *)
(* the ends of the binary64 range, so no result of an operation is         *)
(* subnormal or infinite.                                                  *)

LimbBase == 2^15

RECURSIVE BigOf(_)
BigOf(n) == IF n = 0 THEN <<>> ELSE <<n % LimbBase>> \o BigOf(n \div LimbBase)

\* for numbers below 2^31
RECURSIVE BigToInt(_)
BigToInt(a) == IF a = <<>> THEN 0 ELSE Head(a) + LimbBase * BigToInt(Tail(a))

RECURSIVE BigTrim(_)
BigTrim(a) ==
  IF a # <<>> /\ a[Len(a)] = 0 THEN BigTrim(SubSeq(a, 1, Len(a) - 1)) ELSE a

\* -1, 0 or 1 as a < b, a = b or a > b: by length, then from the top limb
RECURSIVE BigCmp(_, _)
BigCmp(a, b) ==
  IF Len(a) # Len(b) THEN (IF Len(a) < Len(b) THEN -1 ELSE 1)
  ELSE IF a = <<>> THEN 0
  ELSE IF a[Len(a)] # b[Len(b)] THEN (IF a[Len(a)] < b[Len(b)] THEN -1 ELSE 1)
  ELSE BigCmp(SubSeq(a, 1, Len(a) - 1), SubSeq(b, 1, Len(b) - 1))

\* a + b + carry
RECURSIVE BigAdd(_, _, _)
BigAdd(a, b, carry) ==
  IF a = <<>> /\ b = <<>> THEN BigOf(carry)
  ELSE LET x == (IF a = <<>> THEN 0 ELSE Head(a))
                  + (IF b = <<>> THEN 0 ELSE Head(b)) + carry
       IN <<x % LimbBase>>
            \o BigAdd(IF a = <<>> THEN <<>> ELSE Tail(a),
                      IF b = <<>> THEN <<>> ELSE Tail(b), x \div LimbBase)

\* a - b - borrow, for a >= b + borrow
RECURSIVE BigSub(_, _, _)
BigSub(a, b, borrow) ==
  IF a = <<>> THEN <<>>
  ELSE LET x == Head(a) - (IF b = <<>> THEN 0 ELSE Head(b)) - borrow
       IN BigTrim(<<IF x < 0 THEN x + LimbBase ELSE x>>
                    \o BigSub(Tail(a), IF b = <<>> THEN <<>> ELSE Tail(b),
                              IF x < 0 THEN 1 ELSE 0))

\* a * k + carry, for an integer 0 <= k < 2^16; zeros may stay at the top
\* when k = 0
RECURSIVE BigMul(_, _, _)
BigMul(a, k, carry) ==
  IF a = <<>> THEN BigOf(carry)
  ELSE LET x == Head(a) * k + carry
       IN <<x % LimbBase>> \o BigMul(Tail(a), k, x \div LimbBase)

\* [q, r], quotient and remainder of a by the integer k, 0 < k < 2^16; the
\* quotient may keep zeros at its top
RECURSIVE BigDivSmall(_, _)
BigDivSmall(a, k) ==
  IF a = <<>> THEN [q |-> <<>>, r |-> 0]
  ELSE LET top == BigDivSmall(Tail(a), k)
           x == top.r * LimbBase + Head(a)
       IN [q |-> <<x \div k>> \o top.q, r |-> x % k]

RECURSIVE BitLen(_)
BitLen(n) == IF n = 0 THEN 0 ELSE 1 + BitLen(n \div 2)

BigBitLen(a) == IF a = <<>> THEN 0 ELSE 15 * (Len(a) - 1) + BitLen(a[Len(a)])

\* bit i of a, bit 0 the lowest
BigBit(a, i) ==
  IF i \div 15 >= Len(a) THEN 0 ELSE (a[i \div 15 + 1] \div 2^(i % 15)) % 2

\* a * 2^n
BigShl(a, n) ==
  IF a = <<>> THEN <<>>
  ELSE [j \in 1..(n \div 15) |-> 0] \o BigMul(a, 2^(n % 15), 0)

\* a \div 2^n
BigShr(a, n) ==
  IF n \div 15 >= Len(a) THEN <<>>
  ELSE BigTrim(BigDivSmall(SubSeq(a, n \div 15 + 1, Len(a)), 2^(n % 15)).q)

\* long division, a bit at a time: [q, r] after the steps for the bits
\* hi - 1 down to lo of n, begun with the remainder r.  A step doubles the
\* remainder, takes the bit of n and gives up d once if it can; the steps
\* for the upper half of the bits are taken first, then those for the lower
\* half.
RECURSIVE BigDivMod(_, _, _, _, _)
BigDivMod(n, d, r, hi, lo) ==
  IF hi - lo = 1
  THEN CHOOSE qr \in {IF BigCmp(rem, d) >= 0
                       THEN [q |-> <<1>>, r |-> BigSub(rem, d, 0)]
                       ELSE [q |-> <<>>, r |-> rem] :
                         rem \in {BigAdd(BigShl(r, 1), <<>>, BigBit(n, lo))}} :
         TRUE
  ELSE LET mid == (hi + lo) \div 2
           halves == {LET low == BigDivMod(n, d, top.r, mid, lo)
                      IN [q |-> BigAdd(BigShl(top.q, mid - lo), low.q, 0),
                          r |-> low.r] :
                        top \in {BigDivMod(n, d, r, hi, mid)}}
       IN CHOOSE qr \in halves : TRUE

\* a / 2^n for n > 0, to the nearest integer, a half to the even neighbour:
\* one is added when bit n - 1 of a is set and either bit n is set or a bit
\* below bit n - 1 is
BigRound(a, n) ==
  IF BigBit(a, n - 1) = 1
       /\ (BigBit(a, n) = 1 \/ BigShl(BigShr(a, n - 1), n - 1) # a)
  THEN BigAdd(BigShr(a, n), <<>>, 1)
  ELSE BigShr(a, n)

\* the float nearest to s * n * 2^e: the number itself when n has at most
\* 53 bits, else n is cut to 53 bits
FlFit(s, n, e) ==
  IF BigBitLen(n) <= 53 THEN [s |-> s, m |-> n, e |-> e]
  ELSE [s |-> s, m |-> BigRound(n, BigBitLen(n) - 53),
        e |-> e + (BigBitLen(n) - 53)]

\* the float nearest to s * (qr.q + qr.r / d) * 2^e for the quotient and the
\* remainder of a division by d: a remainder adds a bit below the quotient
FlSticky(s, qr, e) ==
  FlFit(s, BigMul(qr.q, 2, IF qr.r = <<>> THEN 0 ELSE 1), e - 1)

\* the float nearest to s * (n / d) * 2^e, for limbs n and d # 0 with n at
\* most 53 bits longer than d: n is doubled until the quotient has 54 or 55
\* bits
FlRound(s, n, d, e) ==
  IF n = <<>> THEN [s |-> 1, m |-> <<>>, e |-> 0]
  ELSE FlSticky(s,
                BigDivMod(BigShl(n, 54 - (BigBitLen(n) - BigBitLen(d))), d,
                          <<>>, 54 + BigBitLen(d), 0),
                e - (54 - (BigBitLen(n) - BigBitLen(d))))

\* float(n) for an integer n below 2^31 either side of zero
FlInt(n) == FlFit(IF n < 0 THEN -1 ELSE 1, BigOf(IF n < 0 THEN -n ELSE n), 0)

\* float(num) / float(den) for integers num and den > 0: the float nearest
\* to the quotient, which is the quotient itself when it is an integer
FlQuot(num, den) ==
  IF num % den = 0 THEN FlInt(num \div den)
  ELSE FlRound(IF num < 0 THEN -1 ELSE 1, BigOf(IF num < 0 THEN -num ELSE num),
               BigOf(den), 0)

\* x / y, for y # 0: the quotient of the limbs on the exponent x.e - y.e
FlDiv(x, y) ==
  IF BigBitLen(x.m) <= 30 /\ BigBitLen(y.m) <= 30
  THEN [FlQuot(BigToInt(x.m), BigToInt(y.m))
          EXCEPT !.s = x.s * y.s, !.e = @ + x.e - y.e]
  ELSE FlRound(x.s * y.s, x.m, y.m, x.e - y.e)

\* x * (k * 2^e), for an integer 0 <= k < 2^16: x * 100.0 is FlTimes(x, 25, 2)
FlTimes(x, k, e) == FlFit(x.s, BigTrim(BigMul(x.m, k, 0)), x.e + e)

\* the limbs of x on the lower of the exponents of x and y
FlAligned(x, y) == BigShl(x.m, IF x.e < y.e THEN 0 ELSE x.e - y.e)

\* -1, 0 or 1 as x < y, x = y or x > y: by the signs, then by the limbs
\* on the lower of the two exponents
FlCmp(x, y) ==
  LET sx == IF x.m = <<>> THEN 0 ELSE x.s
      sy == IF y.m = <<>> THEN 0 ELSE y.s
  IN IF sx # sy THEN (IF sx < sy THEN -1 ELSE 1)
     ELSE sx * BigCmp(FlAligned(x, y), FlAligned(y, x))

\* x + y
FlAdd(x, y) ==
  FlFit(IF x.s = y.s \/ BigCmp(FlAligned(x, y), FlAligned(y, x)) >= 0
        THEN x.s ELSE y.s,
        IF x.s = y.s THEN BigAdd(FlAligned(x, y), FlAligned(y, x), 0)
        ELSE IF BigCmp(FlAligned(x, y), FlAligned(y, x)) >= 0
        THEN BigSub(FlAligned(x, y), FlAligned(y, x), 0)
        ELSE BigSub(FlAligned(y, x), FlAligned(x, y), 0),
        IF x.e < y.e THEN x.e ELSE y.e)

\* round(x, ndigits) in units of 10^-ndigits (round(x) for ndigits = 0),
\* 0 <= ndigits <= 4: the float is rounded as the number it is, a half to
\* the even neighbour
PyRound(x, ndigits) ==
  x.s * BigToInt(IF x.e >= 0 THEN BigShl(BigMul(x.m, 10^ndigits, 0), x.e)
                 ELSE BigRound(BigMul(x.m, 10^ndigits, 0), -x.e))

\* the float written with two decimals, h / 100
Double(h) == FlQuot(h, 100)
----------------------------------------------------------------------------
(* app/flags/risk_flags.py *)

\* weekly_distance arrives as floats: the list in hundredths
Floats(items) == [i \in 1..Len(items) |-> Hundredths(items[i])]

\* the two-point comparison applied to every length
TrendLastOnly(w) ==
  IF Len(w) < 2 THEN TRUE ELSE w[Len(w)] <= w[Len(w) - 1]

\* weekly_distance[-1] <= prev_avg with prev_avg = (w[-2] + w[-3]) / 2.0, the
\* three floats given in hundredths.  The sum is rounded once and each float
\* lies within one part in 2^53 of its decimal, so the decimals decide
\* unless 2 * last = a + b, and then the floats do.
AtMostPrevAvg(last, a, b) ==
  IF 2 * last # a + b THEN 2 * last < a + b
  ELSE FlCmp(Double(last),
             [FlAdd(Double(a), Double(b)) EXCEPT !.e = @ - 1]) <= 0

_trend_is_flat_or_decreasing(w) ==
  IF Len(w) < 2 THEN TRUE
  ELSE IF Len(w) = 2 THEN w[Len(w)] <= w[Len(w) - 1]
  ELSE AtMostPrevAvg(w[Len(w)], w[Len(w) - 1], w[Len(w) - 2])

EmptyMap == [k \in {} |-> ""]
Put(d, k, v) == [x \in DOMAIN d \cup {k} |-> IF x = k THEN v ELSE d[x]]

\* the locals flags, limitations, details, and whether an exception escaped
NewAcc == [flags |-> <<>>, limitations |-> <<>>, details |-> EmptyMap,
           raised |-> FALSE]

Limit(acc, text) == [acc EXCEPT !.limitations = Append(@, text)]

\* the flag appended without its explanation
FlagNoDetail(acc, flag, text) == [acc EXCEPT !.flags = Append(@, flag)]

Flag(acc, flag, text) ==
  [acc EXCEPT !.flags = Append(@, flag), !.details = Put(@, flag, text)]

\* `not weekly_distance` after _get: None or the empty list
Falsy(weekly_distance) ==
  weekly_distance.t = "none"
    \/ (weekly_distance.t = "list" /\ weekly_distance.items = <<>>)

\* the two float() conversions of the ratio sub-check succeed
RatioConverts(weekly_distance) ==
  LET w == weekly_distance.items
  IN FloatOk(w[Len(w)]) /\ FloatOk(w[Len(w) - 1])

RatioRuns(weekly_distance) ==
  weekly_distance.t = "list" /\ Len(weekly_distance.items) >= 2

\* last_wk >= 1.25 * prev_wk, the two floats given in hundredths.  The
\* product is rounded once, so the decimals decide unless
\* last_wk = 1.25 * prev_wk, and then the floats do.
AtLeastQuarterMore(last_wk, prev_wk) ==
  IF 100 * last_wk # 125 * prev_wk THEN 100 * last_wk > 125 * prev_wk
  ELSE FlCmp(Double(last_wk), FlTimes(Double(prev_wk), 5, -2)) >= 0

\* the ratio test without its guard prev_wk > 0
RatioSpikeNoGuard(weekly_distance) ==
  LET w == weekly_distance.items
      last_wk == Hundredths(w[Len(w)])
      prev_wk == Hundredths(w[Len(w) - 1])
  IN AtLeastQuarterMore(last_wk, prev_wk)

\* prev_wk > 0 and last_wk >= 1.25 * prev_wk
RatioSpike(weekly_distance) ==
  LET w == weekly_distance.items
      last_wk == Hundredths(w[Len(w)])
      prev_wk == Hundredths(w[Len(w) - 1])
  IN prev_wk > 0 /\ AtLeastQuarterMore(last_wk, prev_wk)

\* volume_spike skipped as soon as acwr is missing
VolumeSpikeNeedsAcwr(acc, acwr, weekly_distance) ==
  IF acwr.t = "none"
  THEN Limit(acc, "Missing acwr and weekly_distance; cannot assess volume spikes reliably.")
  ELSE IF Hundredths(acwr) >= 150
  THEN Flag(acc, "volume_spike",
            "Training volume increased sharply relative to your recent baseline. Sudden spikes elevate short-term injury and fatigue risk.")
  ELSE acc

\* --- A) volume_spike ---
RuleVolumeSpike(acc, acwr, weekly_distance) ==
  LET skipped == acwr.t = "none" /\ Falsy(weekly_distance)
      by_acwr == acwr.t \in NumberTypes /\ Hundredths(acwr) >= 150
      ratio == ~skipped /\ RatioRuns(weekly_distance)
      by_ratio == ratio /\ RatioConverts(weekly_distance)
                    /\ RatioSpike(weekly_distance)
      volume_spike_triggered == ~skipped /\ (by_acwr \/ by_ratio)
      a1 == IF skipped
            THEN Limit(acc, "Missing acwr and weekly_distance; cannot assess volume spikes reliably.")
            ELSE IF ratio /\ ~RatioConverts(weekly_distance)
            THEN Limit(acc, "weekly_distance values invalid; spike check skipped.")
            ELSE acc
  IN IF volume_spike_triggered
     THEN Flag(a1, "volume_spike",
               "Training volume increased sharply relative to your recent baseline. Sudden spikes elevate short-term injury and fatigue risk.")
     ELSE a1

\* --- B) undertraining ---  ([float(x) for x in weekly_distance] is not guarded)
RuleUndertraining(acc, acwr, weekly_distance) ==
  IF acwr.t = "none" \/ weekly_distance.t # "list"
       \/ Len(weekly_distance.items) < 2
  THEN Limit(acc, "Missing acwr or sufficient weekly_distance; undertraining check may be incomplete.")
  ELSE IF Hundredths(acwr) < 80
  THEN IF \E i \in 1..Len(weekly_distance.items) :
            ~FloatOk(weekly_distance.items[i])
       THEN [acc EXCEPT !.raised = TRUE]
       ELSE IF _trend_is_flat_or_decreasing(Floats(weekly_distance.items))
       THEN Flag(acc, "undertraining",
                 "Recent training load is below your longer-term baseline and appears flat or declining. This can reduce fitness and make harder efforts feel disproportionately taxing.")
       ELSE acc
  ELSE acc

\* --- C) long_run_dominance ---
RuleLongRun(acc, longest_run_pct) ==
  IF longest_run_pct.t = "none"
  THEN Limit(acc, "Missing longest_run_pct; cannot assess long-run dominance.")
  ELSE IF ~FloatOk(longest_run_pct)
  THEN Limit(acc, "longest_run_pct invalid; long-run dominance check skipped.")
  ELSE IF Hundredths(longest_run_pct) >= 40
  THEN Flag(acc, "long_run_dominance",
            "A large share of your weekly volume is concentrated in one run. When the long run dominates the week, connective tissues often have less time to adapt.")
  ELSE acc

\* --- D) insufficient_easy_running ---
RuleEasy(acc, easy_pct) ==
  IF easy_pct.t = "none"
  THEN Limit(acc, "Missing easy_pct; cannot assess easy-running balance.")
  ELSE IF ~FloatOk(easy_pct)
  THEN Limit(acc, "easy_pct invalid; easy-running balance check skipped.")
  ELSE IF Hundredths(easy_pct) < 6500
  THEN Flag(acc, "insufficient_easy_running",
            "A relatively low portion of your running is truly easy. Too much moderate/hard running can accumulate fatigue and limit recovery between sessions.")
  ELSE acc

\* --- E) excessive_hard_running ---
RuleHard(acc, hard_pct) ==
  IF hard_pct.t = "none"
  THEN Limit(acc, "Missing hard_pct; cannot assess hard-running proportion.")
  ELSE IF ~FloatOk(hard_pct)
  THEN Limit(acc, "hard_pct invalid; hard-running proportion check skipped.")
  ELSE IF Hundredths(hard_pct) >= 2000
  THEN Flag(acc, "excessive_hard_running",
            "A relatively high portion of your mileage is hard intensity. Sustained high-intensity volume is effective but increases recovery demand and injury risk.")
  ELSE acc

\* --- F) insufficient_recovery ---
RuleRecovery(acc, rest_days_last_14, b2b_runs_last_14) ==
  LET skipped == rest_days_last_14.t = "none" /\ b2b_runs_last_14.t = "none"
      recovery_triggered ==
        /\ ~skipped
        /\ \/ rest_days_last_14.t = "int" /\ rest_days_last_14.n <= 1
           \/ b2b_runs_last_14.t = "int" /\ b2b_runs_last_14.n >= 5
      a1 == IF skipped
            THEN Limit(acc, "Missing rest_days_last_14 and back_to_back_runs_last_14; cannot assess recovery density.")
            ELSE acc
  IN IF recovery_triggered
     THEN Flag(a1, "insufficient_recovery",
               "Recent training has limited recovery spacing (few rest days and/or frequent back-to-back runs). Insufficient recovery increases fatigue and can make small issues linger into injuries.")
     ELSE a1

\* the level by the number of flags alone, without the compound override
RiskLevelCountOnly(flags) ==
  IF Len(flags) >= 4 THEN "high"
  ELSE IF Len(flags) >= 2 THEN "moderate"
  ELSE "low"

\* --- Overall risk level ---
RiskLevel(flags) ==
  LET flag_set == SeqToSet(flags)
  IN IF Len(flags) >= 4
          \/ ("volume_spike" \in flag_set /\ "insufficient_recovery" \in flag_set)
     THEN "high"
     ELSE IF Len(flags) >= 2 THEN "moderate"
     ELSE "low"

NoAssessment ==
  [status |-> "none", risk_level |-> "", risk_flags |-> <<>>,
   limitations |-> <<>>, flag_details |-> EmptyMap]

\* the exception of rule B leaves evaluate_risk_flags: nothing is returned
Raised == [NoAssessment EXCEPT !.status = "raised"]

\* the inputs read and the six rules in turn: the locals when the call ends,
\* which is after rule B if it raises
Rules(m) ==
  LET acwr == _get(m, "acwr", NumberTypes)
      weekly_distance == _get(m, "weekly_distance", {"list"})
      longest_run_pct == _get(m, "longest_run_pct", NumberTypes)
      easy_pct == _get(m, "easy_pct", NumberTypes)
      hard_pct == _get(m, "hard_pct", NumberTypes)
      rest_days_last_14 == _get(m, "rest_days_last_14", {"int"})
      b2b_runs_last_14 == _get(m, "back_to_back_runs_last_14", {"int"})
      a == RuleVolumeSpike(NewAcc, acwr, weekly_distance)
      b == RuleUndertraining(a, acwr, weekly_distance)
      c == RuleLongRun(b, longest_run_pct)
      d == RuleEasy(c, easy_pct)
      e == RuleHard(d, hard_pct)
      f == RuleRecovery(e, rest_days_last_14, b2b_runs_last_14)
  IN IF b.raised THEN b ELSE f

evaluate_risk_flags(m) ==
  LET f == Rules(m)
  IN IF f.raised THEN Raised
     ELSE [status |-> "returned",
           risk_level |-> RiskLevel(f.flags),
           risk_flags |-> sorted(f.flags),
           limitations |-> SortedSet(SeqToSet(f.limitations)),
           flag_details |-> f.details]
----------------------------------------------------------------------------
(* app/io/models.py and app/metrics/compute_metrics.py *)
(*                                                                         *)
(* A datetime is [day, hour]: day counts the days from a Monday, so        *)
(* weekday() is day % 7 and date() is day.  Distances are metres,          *)
(* durations seconds, both floats holding integers.  A pace is kept as     *)
(* the pair [num, den] of the duration_s and the distance_m it is          *)
(* computed from, inf as the pair [1, 0]; PaceFloat is the float, and      *)
(* PaceCmp compares the floats.                                            *)

Time(day, hour) == [day |-> day, hour |-> hour]
Run(start_time, distance_m, duration_s) ==
  [start_time |-> start_time, distance_m |-> distance_m, duration_s |-> duration_s]

\* datetime >= datetime
TimeGeq(a, b) == a.day > b.day \/ (a.day = b.day /\ a.hour >= b.hour)

\* datetime - timedelta(days = days)
MinusDays(t, days) == Time(t.day - days, t.hour)

\* Run.pace_s_per_km: inf when km <= 0, which is when distance_m <= 0
pace_s_per_km(r) ==
  IF r.distance_m <= 0 THEN [num |-> 1, den |-> 0]
  ELSE [num |-> r.duration_s, den |-> r.distance_m]

\* km = distance_m / 1000.0, then duration_s / km.  inf stands as 2^1024,
\* the least power of two above every float: it is only compared
PaceFloat(p) ==
  IF p.den = 0 THEN [s |-> 1, m |-> <<1>>, e |-> 1024]
  ELSE FlDiv(FlInt(p.num), FlQuot(p.den, 1000))

\* -1, 0 or 1 as the float of p is below, equal to or above the float of q.
\* Either float lies within two parts in 2^53 of its quotient num / den, so
\* the quotients decide unless they are equal, and then the floats do.  inf
\* equals inf and is above every other pace.
PaceCmp(p, q) ==
  IF p = q THEN 0
  ELSE IF p.den = 0 THEN (IF q.den = 0 THEN 0 ELSE 1)
  ELSE IF q.den = 0 THEN -1
  ELSE IF p.num * q.den < q.num * p.den THEN -1
  ELSE IF p.num * q.den > q.num * p.den THEN 1
  ELSE FlCmp(PaceFloat(p), PaceFloat(q))

PaceLeq(p, q) == PaceCmp(p, q) <= 0

\* the quotient cut off after the last kept digit, instead of rounded
Truncated(num, den, ndigits) == ((10^ndigits) * num) \div den

\* round(num / den, ndigits) in units of 10^-ndigits, for floats holding the
\* integers num >= 0 and den > 0.  The quotient is rounded to a float
\* within one part in 2^53 of it, so it rounds like the exact quotient
\* unless that lies half way between two results, and then the float is
\* rounded as the number it is.
RoundDiv(num, den, ndigits) ==
  LET scaled == (10^ndigits) * num
      q == scaled \div den
      r == scaled % den
  IN IF 2 * r < den THEN q
     ELSE IF 2 * r > den THEN q + 1
     ELSE PyRound(FlQuot(num, den), ndigits)

\* round((part_m / total_m) * 100.0, 1) in tenths of a percent: as RoundDiv,
\* the float being the quotient rounded and its product by 100.0 rounded
RoundPct(part_m, total_m) ==
  LET q == (1000 * part_m) \div total_m
      r == (1000 * part_m) % total_m
  IN IF 2 * r < total_m THEN q
     ELSE IF 2 * r > total_m THEN q + 1
     ELSE PyRound(FlTimes(FlQuot(part_m, total_m), 25, 2), 1)

\* int(round(k * pct)) for the float pct given in hundredths: as RoundDiv,
\* the float being the product of k and the float pct
RoundIndex(k, pct) ==
  LET q == (k * pct) \div 100
      r == (k * pct) % 100
  IN IF r < 50 THEN q
     ELSE IF r > 50 THEN q + 1
     ELSE PyRound(FlTimes(Double(pct), k, 0), 0)

RECURSIVE SumSeq(_)
SumSeq(s) == IF s = <<>> THEN 0 ELSE Head(s) + SumSeq(Tail(s))

Distances(runs) == [i \in 1..Len(runs) |-> runs[i].distance_m]

\* sorted(set of integers)
RECURSIVE SortedInts(_)
SortedInts(S) ==
  IF S = {} THEN <<>>
  ELSE LET m == CHOOSE x \in S : \A y \in S : x <= y
       IN <<m>> \o SortedInts(S \ {m})

\* the week taken to start on Sunday instead of Monday
WeekStartSunday(d) == Time(d.day - ((d.day + 1) % 7), 0)

_week_start(d) == Time(d.day - (d.day % 7), 0)

\* no run dropped by the lookback
KeepAll(runs, days) == runs

_filter_lookback(runs, days) ==
  IF runs = <<>> THEN <<>>
  ELSE LET cutoff == MinusDays(runs[Len(runs)].start_time, days)
           keep(r) == TimeGeq(r.start_time, cutoff)
       IN SelectSeq(runs, keep)

\* (week_start, total_distance_m, run_count), ascending by week_start
_weekly_buckets(runs) ==
  LET weeks == SortedInts({_week_start(runs[i].start_time).day : i \in 1..Len(runs)})
      in_week(ws) == LET keep(r) == _week_start(r.start_time).day = ws
                     IN SelectSeq(runs, keep)
  IN [i \in 1..Len(weeks) |->
        [week_start |-> Time(weeks[i], 0),
         dist_m |-> SumSeq(Distances(in_week(weeks[i]))),
         count |-> Len(in_week(weeks[i]))]]

\* the dates of the runs at most 13 days before the last run's date
DaysWithRun(runs) ==
  LET last_day == runs[Len(runs)].start_time.day
  IN {runs[i].start_time.day : i \in {j \in 1..Len(runs) :
        last_day - runs[j].start_time.day <= 13}}

\* every run taken as a day of its own
RestDaysPerRun(runs) ==
  IF runs = <<>> THEN 14
  ELSE 14 - Cardinality({i \in 1..Len(runs) :
         runs[Len(runs)].start_time.day - runs[i].start_time.day <= 13})

_count_rest_days_last_14(runs) ==
  IF runs = <<>> THEN 14 ELSE 14 - Cardinality(DaysWithRun(runs))

\* run days up to two days apart taken as back to back
BackToBackWithGap(runs) ==
  IF runs = <<>> THEN 0
  ELSE LET days == SortedInts(DaysWithRun(runs))
       IN Cardinality({i \in 2..Len(days) : days[i] - days[i - 1] <= 2})

_count_back_to_back_runs_last_14(runs) ==
  IF runs = <<>> THEN 0
  ELSE LET days == SortedInts(DaysWithRun(runs))
       IN Cardinality({i \in 2..Len(days) : days[i] - days[i - 1] = 1})

\* sorted(paces)
RECURSIVE InsertPace(_, _)
InsertPace(s, p) ==
  IF s = <<>> THEN <<p>>
  ELSE IF PaceCmp(p, Head(s)) < 0 THEN <<p>> \o s
  ELSE <<Head(s)>> \o InsertPace(Tail(s), p)

RECURSIVE SortedPaces(_)
SortedPaces(s) ==
  IF s = <<>> THEN <<>>
  ELSE InsertPace(SortedPaces(SubSeq(s, 1, Len(s) - 1)), s[Len(s)])

Max(a, b) == IF a >= b THEN a ELSE b
Min(a, b) == IF a <= b THEN a ELSE b

\* vals[idx], idx = max(0, min(len - 1, int(round((len - 1) * pct)))),
\* pct in hundredths; the sequence is 1-based
pct_value(vals, pct) ==
  LET idx == Max(0, Min(Len(vals) - 1, RoundIndex(Len(vals) - 1, pct)))
  IN vals[idx + 1]

NoPace == [num |-> 0, den |-> 1]

\* the result of _intensity_split_by_pace, in tenths of a percent, with the
\* locals it was computed from
Split(branch, easy_pct, hard_pct, easy_m, hard_m, total_m, hard_cut, easy_cut) ==
  [branch |-> branch, easy_pct |-> easy_pct, hard_pct |-> hard_pct,
   easy_m |-> easy_m, hard_m |-> hard_m, total_m |-> total_m,
   hard_cut |-> hard_cut, easy_cut |-> easy_cut]

\* the runs the loop adds to hard_m: pace <= hard_cut
IsHard(r, hard_cut, easy_cut) == PaceLeq(pace_s_per_km(r), hard_cut)

\* the runs the loop adds to easy_m: the elif branch
IsEasy(r, hard_cut, easy_cut) ==
  ~PaceLeq(pace_s_per_km(r), hard_cut) /\ PaceLeq(easy_cut, pace_s_per_km(r))

\* not enough history: len(pace_runs) < 3
TooFewBelowTwo(pace_runs) == Len(pace_runs) < 2

TooFew(pace_runs) == Len(pace_runs) < 3

\* the end of _intensity_split_by_pace: the percentages of the sums
SplitReturn(easy_m, hard_m, total_m, hard_cut, easy_cut) ==
  IF total_m <= 0
  THEN Split("zero", 0, 0, easy_m, hard_m, total_m, hard_cut, easy_cut)
  ELSE Split("split", RoundPct(easy_m, total_m), RoundPct(hard_m, total_m),
             easy_m, hard_m, total_m, hard_cut, easy_cut)

\* total_m and the loop that sums hard_m and easy_m over pace_runs
SplitLoop(pace_runs, hard_cut, easy_cut) ==
  LET hard(r) == IsHard(r, hard_cut, easy_cut)
      easy(r) == IsEasy(r, hard_cut, easy_cut)
  IN SplitReturn(SumSeq(Distances(SelectSeq(pace_runs, easy))),
                 SumSeq(Distances(SelectSeq(pace_runs, hard))),
                 SumSeq(Distances(pace_runs)), hard_cut, easy_cut)

_intensity_split_by_pace(runs) ==
  IF runs = <<>> THEN Split("empty", 0, 0, 0, 0, 0, NoPace, NoPace)
  ELSE
    LET positive(r) == r.distance_m > 0
        pace_runs == SelectSeq(runs, positive)
    IN IF TooFew(pace_runs)
       THEN Split("default", 700, 0, 0, 0, 0, NoPace, NoPace)
       ELSE
         LET paces == SortedPaces([i \in 1..Len(pace_runs) |->
                                     pace_s_per_km(pace_runs[i])])
         IN SplitLoop(pace_runs, pct_value(paces, 15), pct_value(paces, 60))

NoSnapshot == [status |-> "none"]

\* {..., **intensity}: the two percentages are added to the dict d, and the
\* split they belong to
Merged(d, intensity) ==
  [k \in DOMAIN d \cup {"easy_pct", "hard_pct", "intensity"} |->
     IF k = "easy_pct" THEN intensity.easy_pct
     ELSE IF k = "hard_pct" THEN intensity.hard_pct
     ELSE IF k = "intensity" THEN intensity
     ELSE d[k]]

\* the dict compute_metrics returns; distances in hundredths of a km, acwr
\* and longest_run_pct in hundredths (Python values: None when undefined),
\* easy_pct and hard_pct in tenths of a percent; runs and intensity are the
\* locals the result was computed from
compute_metrics(all_runs, lookback) ==
  LET runs == _filter_lookback(all_runs, lookback)
      total_distance_m == SumSeq(Distances(runs))
      weekly_buckets == _weekly_buckets(runs)
      last_day == runs[Len(runs)].start_time
      recent(r) == TimeGeq(r.start_time, MinusDays(last_day, 7))
      last7_runs == IF runs = <<>> THEN <<>> ELSE SelectSeq(runs, recent)
      dist_7_m == SumSeq(Distances(last7_runs))
      dist_28_m == total_distance_m
      \* denom = dist_28_m / 4.0 is exact, so dist_7_m / denom is the float
      \* nearest to 4 * dist_7_m / dist_28_m
      acwr == IF dist_28_m > 0
              THEN PyFloat(RoundDiv(4 * dist_7_m, dist_28_m, 2))
              ELSE None
      longest_m == CHOOSE m \in SeqToSet(Distances(last7_runs)) :
                     \A x \in SeqToSet(Distances(last7_runs)) : x <= m
      longest_run_pct == IF runs # <<>> /\ dist_7_m > 0
                         THEN PyFloat(RoundDiv(longest_m, dist_7_m, 2))
                         ELSE None
  IN Merged(
       [status |-> "returned",
        lookback_days |-> lookback,
        run_count |-> Len(runs),
        total_distance_km |-> RoundDiv(total_distance_m, 1000, 2),
        weekly_distance |-> [i \in 1..Len(weekly_buckets) |->
                               RoundDiv(weekly_buckets[i].dist_m, 1000, 2)],
        weekly_frequency |-> [i \in 1..Len(weekly_buckets) |->
                                weekly_buckets[i].count],
        acwr |-> acwr,
        longest_run_pct |-> longest_run_pct,
        rest_days_last_14 |-> _count_rest_days_last_14(runs),
        back_to_back_runs_last_14 |-> _count_back_to_back_runs_last_14(runs),
        runs |-> runs],
       _intensity_split_by_pace(runs))

\* the dict as the mapping evaluate_risk_flags reads
AsMetrics(s) ==
  [acwr |-> s.acwr,
   weekly_distance |-> PyList([i \in 1..Len(s.weekly_distance) |->
                                 PyFloat(s.weekly_distance[i])]),
   longest_run_pct |-> s.longest_run_pct,
   easy_pct |-> PyFloat(10 * s.easy_pct),
   hard_pct |-> PyFloat(10 * s.hard_pct),
   rest_days_last_14 |-> PyInt(s.rest_days_last_14),
   back_to_back_runs_last_14 |-> PyInt(s.back_to_back_runs_last_14)]


----------------------------------------------------------------------------
(* app/io/csv_parser.py *)
(*                                                                         *)
(* A CSV file is the set of its normalized column names, the               *)
(* distance_unit_default of the call and its rows; a row holds the cells   *)
(* of the three chosen columns.  A distance cell counts whole units of the *)
(* column (km, m or mi), a duration cell seconds.  The avg_hr column does  *)
(* not decide which rows are kept and is left out.  The distance_m of a    *)
(* parsed run need not hold an integer (a mile is 1609.344 m): it is the   *)
(* float [s, m, e], here and in fit_parser.py.                             *)

\* start cell: a text that denotes the datetime at, or one that denotes none
DateCell(at) == [t |-> "date", at |-> at]
JunkCell == [t |-> "junk", at |-> Time(0, 0)]

\* distance and duration cells: a number, an empty cell (pandas NaN), or a
\* clock text "mm:ss" / "h:mm:ss" given by its parts, which is a text that
\* float() rejects
NumCell(n) == [t |-> "num", n |-> n, parts |-> <<>>]
NaNCell == [t |-> "nan", n |-> 0, parts |-> <<>>]
ClockCell(parts) == [t |-> "clock", n |-> 0, parts |-> parts]

Row(start, distance, duration) ==
  [start |-> start, distance |-> distance, duration |-> duration]

\* the column names tried in turn: <<start_time, distance, duration>>
Candidates ==
  << <<"date", "distance", "time">>,
     <<"activity_date", "distance", "time">>,
     <<"start_time", "distance", "elapsed_time">>,
     <<"start_time", "distance", "time">> >>

\* chosen is not None
Mapped(columns) ==
  \E i \in 1..Len(Candidates) : SeqToSet(Candidates[i]) \subseteq columns

\* _parse_datetime returns the datetime, or dateutil raises
DatetimeRaises(value) == value.t # "date"
_parse_datetime(value) == value.at

\* _to_seconds of a cell: a missing duration, a text that is no number and
\* a clock text of other than 2 or 3 parts raise
SecondsRaises(value) ==
  \/ value.t \notin {"num", "clock"}
  \/ value.t = "clock" /\ Len(value.parts) \notin {2, 3}

_to_seconds(value) ==
  IF value.t = "num" THEN value.n
  ELSE IF Len(value.parts) = 2 THEN value.parts[1] * 60 + value.parts[2]
  ELSE value.parts[1] * 3600 + value.parts[2] * 60 + value.parts[3]

\* distance_m of a numeric cell dist, an integer of less than 2^16 either
\* side of zero; the column is named "distance", so the unit is
\* distance_unit_default: dist, dist * 1609.344 or dist * 1000.0 (any other
\* unit counts as km)
DistanceM(dist, distance_unit_default) ==
  IF distance_unit_default = "m" THEN FlInt(dist)
  ELSE IF distance_unit_default = "mi"
  THEN FlTimes(FlQuot(IF dist < 0 THEN -1609344 ELSE 1609344, 1000),
               IF dist < 0 THEN -dist ELSE dist, 0)
  ELSE FlTimes(FlInt(dist), 1000, 0)

\* distance_m > 0 and duration_s > 0; NaN > 0 is false
KeptRow(row, distance_unit_default) ==
  /\ row.distance.t = "num"
  /\ FlCmp(DistanceM(row.distance.n, distance_unit_default), FlInt(0)) > 0
  /\ _to_seconds(row.duration) > 0

\* runs.sort(key = start_time): stable
RECURSIVE InsertRun(_, _)
InsertRun(s, r) ==
  IF s = <<>> THEN <<r>>
  ELSE IF ~TimeGeq(r.start_time, Head(s).start_time) THEN <<r>> \o s
  ELSE <<Head(s)>> \o InsertRun(Tail(s), r)

RECURSIVE SortByStart(_)
SortByStart(s) ==
  IF s = <<>> THEN <<>>
  ELSE InsertRun(SortByStart(SubSeq(s, 1, Len(s) - 1)), s[Len(s)])

NoFile == [kind |-> "none"]
NoParse == [status |-> "none", runs |-> <<>>]
ParseRaised == [status |-> "raised", runs |-> <<>>]
Parsed(runs) == [status |-> "returned", runs |-> runs]

parse_garmin_csv(f) ==
  IF ~Mapped(f.columns) THEN ParseRaised
  ELSE IF \E i \in 1..Len(f.rows) :
            \/ DatetimeRaises(f.rows[i].start)
            \/ f.rows[i].distance.t \notin {"num", "nan"}
            \/ SecondsRaises(f.rows[i].duration)
  THEN ParseRaised
  ELSE LET keep(row) == KeptRow(row, f.unit)
           kept == SelectSeq(f.rows, keep)
       IN Parsed(SortByStart([i \in 1..Len(kept) |->
            Run(_parse_datetime(kept[i].start),
                DistanceM(kept[i].distance.n, f.unit),
                _to_seconds(kept[i].duration))]))

----------------------------------------------------------------------------
(* app/io/fit_parser.py *)
(*                                                                         *)
(* A FIT file is the list of its session messages and the list of its      *)
(* activity messages.  A field of a message is [t, v]: t = "none" when the *)
(* message has no value for it.  avg_heart_rate is left out.  A text is a  *)
(* string of ASCII characters.  total_distance, total_timer_time and       *)
(* total_elapsed_time are numbers (integers) or missing, as the FIT        *)
(* profile types them; start_time and timestamp are datetimes, numbers or  *)
(* missing; sport is a text, a number or missing.                          *)

NoField == [t |-> "none", v |-> 0]
Number(n) == [t |-> "num", v |-> n]
Text(s) == [t |-> "str", v |-> s]
\* a timestamp decoded to a datetime, and one left as a raw integer, which
\* is a number like any other
At(time) == [t |-> "datetime", v |-> time]
RawTime == Number(1072937600)

Session(start_time, timestamp, total_distance, total_timer_time, total_elapsed_time, sport) ==
  [start_time |-> start_time, timestamp |-> timestamp,
   total_distance |-> total_distance, total_timer_time |-> total_timer_time,
   total_elapsed_time |-> total_elapsed_time, sport |-> sport]

Activity(timestamp, total_timer_time, total_distance) ==
  [timestamp |-> timestamp, total_timer_time |-> total_timer_time,
   total_distance |-> total_distance]

_to_datetime(value) == IF value.t = "datetime" THEN value ELSE NoField

\* Python truth of a field value: None, 0 and the empty text are false
Truthy(value) ==
  /\ value.t # "none"
  /\ value.t = "num" => value.v # 0
  /\ value.t = "str" => value.v # ""

\* a or b
Or(a, b) == IF Truthy(a) THEN a ELSE b

\* s.lower(): every capital letter gives way to its small letter
RECURSIVE Lower(_)
Lower(s) ==
  IF s = "" THEN ""
  ELSE LET c == Head(s)
           small ==
              CASE c = "A" -> "a" [] c = "B" -> "b" [] c = "C" -> "c" [] c = "D" -> "d"
                [] c = "E" -> "e" [] c = "F" -> "f" [] c = "G" -> "g" [] c = "H" -> "h"
                [] c = "I" -> "i" [] c = "J" -> "j" [] c = "K" -> "k" [] c = "L" -> "l"
                [] c = "M" -> "m" [] c = "N" -> "n" [] c = "O" -> "o" [] c = "P" -> "p"
                [] c = "Q" -> "q" [] c = "R" -> "r" [] c = "S" -> "s" [] c = "T" -> "t"
                [] c = "U" -> "u" [] c = "V" -> "v" [] c = "W" -> "w" [] c = "X" -> "x"
                [] c = "Y" -> "y" [] c = "Z" -> "z"
                [] OTHER -> c
       IN small \o Lower(Tail(s))

\* the locals of one pass of the session loop
SessionStart(s) == Or(_to_datetime(s.start_time), _to_datetime(s.timestamp))
SessionTime(s) == Or(s.total_timer_time, s.total_elapsed_time)

\* the session is appended: a running session (or one without sport) with
\* start time, distance and time.  str() of a sport that is a number is its
\* digits, which is neither text
SessionKept(s) ==
  /\ ~(s.sport.t # "none"
        /\ (s.sport.t # "str" \/ Lower(s.sport.v) \notin {"running", "run"}))
  /\ SessionStart(s).t # "none"
  /\ s.total_distance.t # "none"
  /\ SessionTime(s).t # "none"

ActivityKept(a) ==
  /\ _to_datetime(a.timestamp).t # "none"
  /\ a.total_timer_time.t # "none"
  /\ a.total_distance.t # "none"

parse_garmin_fit(f) ==
  LET sessions == SelectSeq(f.sessions, SessionKept)
      from_sessions ==
        [i \in 1..Len(sessions) |->
           Run(SessionStart(sessions[i]).v,
               FlInt(sessions[i].total_distance.v),
               SessionTime(sessions[i]).v)]
      activities == SelectSeq(f.activities, ActivityKept)
      from_activities ==
        [i \in 1..Len(activities) |->
           Run(_to_datetime(activities[i].timestamp).v,
               FlInt(activities[i].total_distance.v),
               activities[i].total_timer_time.v)]
  IN IF from_sessions # <<>> THEN Parsed(from_sessions)
     ELSE Parsed(from_activities)
----------------------------------------------------------------------------
(* Inputs *)

RECURSIVE SeqsUpTo(_, _)
SeqsUpTo(S, n) ==
  IF n = 0 THEN {<<>>}
  ELSE LET shorter == SeqsUpTo(S, n - 1)
       IN shorter \cup {Append(s, x) : s \in {t \in shorter : Len(t) = n - 1}, x \in S}

AcwrInputs == {Absent, PyStr, PyFloat(79), PyFloat(80), PyFloat(150)}
WeekElems == {PyStr, PyInt(0), PyInt(8), PyInt(10)}
WeeklyInputs ==
  {Absent, PyStr} \cup {PyList(s) : s \in SeqsUpTo(WeekElems, MaxWeeks)}
LongestRunInputs == {Absent, PyStr, PyFloat(39), PyFloat(40)}
EasyInputs == {Absent, PyStr, PyFloat(6490), PyFloat(6500)}
HardInputs == {Absent, PyStr, PyFloat(1990), PyFloat(2000)}
\* 1.0 and 5.0 are floats, which isinstance(val, int) rejects
RestDaysInputs == {Absent, PyFloat(100), PyInt(1), PyInt(2)}
BackToBackInputs == {Absent, PyFloat(500), PyInt(4), PyInt(5)}

MetricsInputs ==
  [acwr : AcwrInputs, weekly_distance : WeeklyInputs,
   longest_run_pct : LongestRunInputs, easy_pct : EasyInputs,
   hard_pct : HardInputs, rest_days_last_14 : RestDaysInputs,
   back_to_back_runs_last_14 : BackToBackInputs]

EmptyMetrics ==
  [acwr |-> Absent, weekly_distance |-> Absent, longest_run_pct |-> Absent,
   easy_pct |-> Absent, hard_pct |-> Absent, rest_days_last_14 |-> Absent,
   back_to_back_runs_last_14 |-> Absent]

NoTrend == [status |-> "none", value |-> FALSE]

\* sample_metrics of test_risk_flags.py
SampleMetrics ==
  [acwr |-> PyFloat(162),
   weekly_distance |->
     PyList(<<PyFloat(1800), PyFloat(2200), PyFloat(2900), PyFloat(3800)>>),
   longest_run_pct |-> PyFloat(42), easy_pct |-> PyFloat(5800),
   hard_pct |-> PyFloat(2200), rest_days_last_14 |-> PyInt(1),
   back_to_back_runs_last_14 |-> PyInt(6)]

TrendValues == {500, 800, 1000, 1100, 1200}
TrendInputs == SeqsUpTo(TrendValues, MaxTrendLen)

----------------------------------------------------------------------------
(* The rule engine applied to a metrics mapping *)

InitFlags ==
  /\ pc = "input"
  /\ metrics \in MetricsInputs \cup {SampleMetrics}
  /\ assessment = NoAssessment
  /\ locals = NewAcc
  /\ file = NoFile
  /\ parsed = NoParse
  /\ weekly = <<>>
  /\ trend = NoTrend
  /\ runs_all = <<>>
  /\ lookback_days = 0
  /\ snapshot = NoSnapshot

Evaluate ==
  /\ pc = "input"
  /\ assessment' = evaluate_risk_flags(metrics)
  /\ locals' = Rules(metrics)
  /\ pc' = "done"
  /\ UNCHANGED <<metrics, weekly, trend, runs_all, lookback_days, snapshot,
                 file, parsed>>

NextFlags == Evaluate

SpecFlags == InitFlags /\ [][NextFlags]_vars

----------------------------------------------------------------------------
(* The trend helper applied to a list of weekly distances *)

InitTrend ==
  /\ pc = "trend"
  /\ weekly \in TrendInputs
  /\ trend = NoTrend
  /\ metrics = EmptyMetrics
  /\ assessment = NoAssessment
  /\ locals = NewAcc
  /\ file = NoFile
  /\ parsed = NoParse
  /\ runs_all = <<>>
  /\ lookback_days = 0
  /\ snapshot = NoSnapshot

ApplyTrend ==
  /\ pc = "trend"
  /\ trend' = [status |-> "returned", value |-> _trend_is_flat_or_decreasing(weekly)]
  /\ pc' = "done"
  /\ UNCHANGED <<metrics, assessment, locals, weekly, runs_all, lookback_days,
                 snapshot, file, parsed>>

NextTrend == ApplyTrend

SpecTrend == InitTrend /\ [][NextTrend]_vars

----------------------------------------------------------------------------
(* The aggregator applied to a run list, and the engine to its result *)

\* the start times are in ascending order
Ascending(times) ==
  \A i \in 1..(Len(times) - 1) : TimeGeq(times[i + 1], times[i])

\* the run list of the start times ts and the <<distance_m, duration_s>> ks
Runs(ts, ks) == [i \in 1..Len(ts) |-> Run(ts[i], ks[i][1], ks[i][2])]

\* the start times drawn for len runs: ascending
StartTimes(times, len) == {ts \in [1..len -> times] : Ascending(ts)}

\* <<distance_m, duration_s>>: paces 300, 360, 420, 300 s/km, and a run
\* without distance
RunKinds == {<<1000, 300>>, <<1000, 360>>, <<2000, 840>>, <<2000, 600>>, <<0, 600>>}
RunTimes == {Time(1, 6), Time(2, 6), Time(31, 6), Time(32, 18)}
Lookbacks == {0, 28}

InitMetrics ==
  /\ pc = "runs"
  /\ \E len \in 0..MaxRuns :
       \E ts \in StartTimes(RunTimes, len), ks \in [1..len -> RunKinds] :
         runs_all = Runs(ts, ks)
  /\ lookback_days \in Lookbacks
  /\ snapshot = NoSnapshot
  /\ metrics = EmptyMetrics
  /\ assessment = NoAssessment
  /\ locals = NewAcc
  /\ file = NoFile
  /\ parsed = NoParse
  /\ weekly = <<>>
  /\ trend = NoTrend

ComputeMetrics ==
  /\ pc = "runs"
  /\ snapshot' = compute_metrics(runs_all, lookback_days)
  /\ metrics' = AsMetrics(snapshot')
  /\ pc' = "input"
  /\ UNCHANGED <<assessment, locals, weekly, trend, runs_all, lookback_days,
                 file, parsed>>

NextMetrics == ComputeMetrics \/ Evaluate

SpecMetrics == InitMetrics /\ [][NextMetrics]_vars


----------------------------------------------------------------------------
(* The aggregator applied to a training history of several weeks *)

\* <<distance_m, duration_s>>: a run without distance, a short and a long run
HistoryKinds == {<<0, 600>>, <<10, 3>>, <<10000, 3600>>}

\* Mondays are the days 0, 7, 14: a Sunday and the Monday after it, a streak
\* of three days, two runs on a day, runs 7 days and 14 days apart
HistoryTimes ==
  {Time(0, 6), Time(6, 18), Time(7, 6), Time(8, 6), Time(13, 6),
   Time(20, 6), Time(20, 18)}
HistoryLookbacks == {0, 14, 28}

InitHistory ==
  /\ pc = "runs"
  /\ \E len \in 0..MaxHistory :
       \E ts \in StartTimes(HistoryTimes, len), ks \in [1..len -> HistoryKinds] :
         runs_all = Runs(ts, ks)
  /\ lookback_days \in HistoryLookbacks
  /\ snapshot = NoSnapshot
  /\ metrics = EmptyMetrics
  /\ assessment = NoAssessment
  /\ locals = NewAcc
  /\ file = NoFile
  /\ parsed = NoParse
  /\ weekly = <<>>
  /\ trend = NoTrend

NextHistory == ComputeMetrics \/ Evaluate

SpecHistory == InitHistory /\ [][NextHistory]_vars

----------------------------------------------------------------------------
(* The ingestion adapters applied to a file *)

StartCells == {DateCell(Time(1, 6)), DateCell(Time(3, 6)), JunkCell}
DistanceCells == {NaNCell, NumCell(0), NumCell(5), ClockCell(<<25, 0>>)}
DurationCells ==
  {NaNCell, NumCell(0), NumCell(1500), ClockCell(<<25, 0>>),
   ClockCell(<<1, 0, 0>>)}
CsvRows == [start : StartCells, distance : DistanceCells, duration : DurationCells]
CsvColumns ==
  {{"date", "distance", "time", "avg_hr"},
   {"start_time", "distance", "elapsed_time"},
   {"date", "time", "calories"}}
CsvUnits == {"km", "m", "mi"}

SessionInputs ==
  [start_time : {NoField, At(Time(3, 6)), At(Time(1, 6))},
   timestamp : {At(Time(2, 6)), RawTime},
   total_distance : {NoField, Number(0), Number(5000)},
   total_timer_time : {NoField, Number(0), Number(1500)},
   total_elapsed_time : {NoField, Number(1600)},
   sport : {NoField, Text("Running"), Text("cycling")}]
ActivityInputs ==
  [timestamp : {At(Time(4, 6)), RawTime},
   total_timer_time : {NoField, Number(1500)},
   total_distance : {NoField, Number(0)}]

InitIngest ==
  /\ pc = "file"
  /\ \/ \E len \in 0..MaxRows :
          \E rows \in [1..len -> CsvRows], columns \in CsvColumns,
             unit \in CsvUnits :
            file = [kind |-> "csv", columns |-> columns, unit |-> unit,
                    rows |-> rows]
     \/ \E n \in 0..MaxSessions, k \in 0..MaxActivities :
          \E sessions \in [1..n -> SessionInputs],
             activities \in [1..k -> ActivityInputs] :
            file = [kind |-> "fit", sessions |-> sessions,
                    activities |-> activities]
  /\ parsed = NoParse
  /\ runs_all = <<>>
  /\ lookback_days = 0
  /\ snapshot = NoSnapshot
  /\ metrics = EmptyMetrics
  /\ assessment = NoAssessment
  /\ locals = NewAcc
  /\ weekly = <<>>
  /\ trend = NoTrend

ParseCsv ==
  /\ pc = "file"
  /\ file.kind = "csv"
  /\ parsed' = parse_garmin_csv(file)
  /\ pc' = "done"
  /\ UNCHANGED <<metrics, assessment, locals, weekly, trend, runs_all,
                 lookback_days, snapshot, file>>

ParseFit ==
  /\ pc = "file"
  /\ file.kind = "fit"
  /\ parsed' = parse_garmin_fit(file)
  /\ pc' = "done"
  /\ UNCHANGED <<metrics, assessment, locals, weekly, trend, runs_all,
                 lookback_days, snapshot, file>>

NextIngest == ParseCsv \/ ParseFit

SpecIngest == InitIngest /\ [][NextIngest]_vars
----------------------------------------------------------------------------
(* Properties of evaluate_risk_flags (SpecFlags) *)

Returned == pc = "done" /\ assessment.status = "returned"

FlagSet == SeqToSet(assessment.risk_flags)
LimitationSet == SeqToSet(assessment.limitations)

\* C1: whenever evaluate_risk_flags returns, with n the number of entries of
\* risk_flags, risk_level is "high" iff n >= 4 or both volume_spike and
\* insufficient_recovery are flagged; otherwise "moderate" iff n is 2 or 3;
\* otherwise (n is 0 or 1) "low".
C1_RiskLevelFromFlags ==
  Returned =>
    LET n == Len(assessment.risk_flags)
        compound == {"volume_spike", "insufficient_recovery"} \subseteq FlagSet
    IN /\ assessment.risk_level = "high" <=> (n >= 4 \/ compound)
       /\ ~(n >= 4 \/ compound) =>
            (assessment.risk_level = "moderate" <=> n \in {2, 3})
       /\ ~(n >= 4 \/ compound) /\ n \notin {2, 3} =>
            (n \in {0, 1} /\ assessment.risk_level = "low")

\* the two-flag set {volume_spike, insufficient_recovery} was returned as high
C1_Witness ==
  /\ Returned
  /\ assessment.risk_flags = <<"insufficient_recovery", "volume_spike">>
  /\ assessment.risk_level = "high"

\* C2: evaluate_risk_flags returns a complete RiskAssessment for every
\* mapping, whatever is absent or ill-typed in it; it never raises.
C2_NeverRaises ==
  pc = "done" =>
    /\ assessment.status = "returned"
    /\ assessment.risk_level \in {"low", "moderate", "high"}

\* the required inputs of each rule, read through _get
RuleInputs(rule) ==
  CASE rule = "volume_spike" ->
         {<<"acwr", NumberTypes, 0>>, <<"weekly_distance", {"list"}, 0>>}
    [] rule = "undertraining" ->
         {<<"acwr", NumberTypes, 0>>, <<"weekly_distance", {"list"}, 2>>}
    [] rule = "long_run_dominance" -> {<<"longest_run_pct", NumberTypes, 0>>}
    [] rule = "insufficient_easy_running" -> {<<"easy_pct", NumberTypes, 0>>}
    [] rule = "excessive_hard_running" -> {<<"hard_pct", NumberTypes, 0>>}
    [] rule = "insufficient_recovery" ->
         {<<"rest_days_last_14", {"int"}, 0>>,
          <<"back_to_back_runs_last_14", {"int"}, 0>>}

RuleIds ==
  {"volume_spike", "undertraining", "long_run_dominance",
   "insufficient_easy_running", "excessive_hard_running",
   "insufficient_recovery"}

\* the input is absent, fails its type check, or has too few points
InputUnusable(m, input) ==
  \/ m[input[1]].t \notin input[2]
  \/ Len(m[input[1]].items) < input[3]

\* the limitation strings that name each rule's check
RuleLimitations(rule) ==
  CASE rule = "volume_spike" ->
         {"Missing acwr and weekly_distance; cannot assess volume spikes reliably.",
          "weekly_distance values invalid; spike check skipped."}
    [] rule = "undertraining" ->
         {"Missing acwr or sufficient weekly_distance; undertraining check may be incomplete."}
    [] rule = "long_run_dominance" ->
         {"Missing longest_run_pct; cannot assess long-run dominance.",
          "longest_run_pct invalid; long-run dominance check skipped."}
    [] rule = "insufficient_easy_running" ->
         {"Missing easy_pct; cannot assess easy-running balance.",
          "easy_pct invalid; easy-running balance check skipped."}
    [] rule = "excessive_hard_running" ->
         {"Missing hard_pct; cannot assess hard-running proportion.",
          "hard_pct invalid; hard-running proportion check skipped."}
    [] rule = "insufficient_recovery" ->
         {"Missing rest_days_last_14 and back_to_back_runs_last_14; cannot assess recovery density."}

\* C3: for each of the six rules, if at least one of its required inputs is
\* absent or fails its type check, the rule contributes no flag and exactly
\* one limitation naming the rule's check is in the returned limitations.
C3_SkippedRuleNoFlagOneLimitation ==
  pc = "done" =>
    \A rule \in RuleIds :
      (\E input \in RuleInputs(rule) : InputUnusable(metrics, input)) =>
        /\ assessment.status = "returned"
        /\ rule \notin FlagSet
        /\ Cardinality(RuleLimitations(rule) \cap LimitationSet) = 1

\* all seven inputs are present and well-typed
AllWellTyped(m) ==
  /\ \A rule \in RuleIds : \A input \in RuleInputs(rule) :
       ~InputUnusable(m, input)
  /\ \A i \in 1..Len(m.weekly_distance.items) :
       m.weekly_distance.items[i].t \in NumberTypes

\* flat or decreasing, as the specification words it
FlatOrDecreasing(w) ==
  \/ Len(w) < 2
  \/ Len(w) = 2 /\ w[2] <= w[1]
  \/ Len(w) >= 3 /\ 2 * w[Len(w)] <= w[Len(w) - 1] + w[Len(w) - 2]

\* the trigger of each rule, read from the mapping (values in hundredths)
Trigger(rule, m) ==
  LET w == Floats(m.weekly_distance.items)
      last_week == w[Len(w)]
      prev_week == w[Len(w) - 1]
  IN CASE rule = "volume_spike" ->
            \/ Hundredths(m.acwr) >= 150
            \/ prev_week > 0 /\ 100 * last_week >= 125 * prev_week
       [] rule = "undertraining" ->
            Hundredths(m.acwr) < 80 /\ FlatOrDecreasing(w)
       [] rule = "long_run_dominance" -> Hundredths(m.longest_run_pct) >= 40
       [] rule = "insufficient_easy_running" -> Hundredths(m.easy_pct) < 6500
       [] rule = "excessive_hard_running" -> Hundredths(m.hard_pct) >= 2000
       [] rule = "insufficient_recovery" ->
            \/ m.rest_days_last_14.n <= 1
            \/ m.back_to_back_runs_last_14.n >= 5

\* C4: when all seven inputs are present and well-typed, risk_flags is
\* exactly the set of the flags whose trigger holds, each rule decided by
\* its own inputs alone.
C4_FlagsAreExactlyTheTriggered ==
  pc = "done" /\ AllWellTyped(metrics) =>
    /\ assessment.status = "returned"
    /\ FlagSet = {rule \in RuleIds : Trigger(rule, metrics)}
    /\ Len(assessment.risk_flags) = Cardinality(FlagSet)

\* the sample of test_risk_flags.py gave its five flags and "high"
C4_Witness ==
  /\ Returned
  /\ metrics = SampleMetrics
  /\ FlagSet = RuleIds \ {"undertraining"}
  /\ assessment.risk_level = "high"

\* C5: in every returned assessment the keys of flag_details are exactly
\* the identifiers in risk_flags.
C5_DetailsMatchFlags ==
  Returned => DOMAIN assessment.flag_details = FlagSet

\* some flags were raised and explained, others were not
C5_Witness ==
  /\ Returned
  /\ Cardinality(DOMAIN assessment.flag_details) = 3
  /\ "undertraining" \in DOMAIN assessment.flag_details

\* C6: the empty mapping gives "low", no flag, no explanation and exactly
\* six distinct limitations, one for each of the six rules.
C6_EmptyMapping ==
  pc = "done" /\ metrics = EmptyMetrics =>
    /\ assessment.status = "returned"
    /\ assessment.risk_level = "low"
    /\ assessment.risk_flags = <<>>
    /\ assessment.flag_details = EmptyMap
    /\ Len(assessment.limitations) = 6
    /\ Cardinality(LimitationSet) = 6
    /\ \A rule \in RuleIds :
         Cardinality(RuleLimitations(rule) \cap LimitationSet) = 1

\* the empty mapping was evaluated
C6_Witness ==
  Returned /\ metrics = EmptyMetrics /\ assessment.limitations # <<>>

StrictlyAscending(s) == \A i \in 1..(Len(s) - 1) : StrLess(s[i], s[i + 1])

\* C7: the returned risk_flags are in strictly ascending lexicographic
\* order and so are the limitations (sorted, nothing twice), whatever the
\* order in which the rules appended them; the sample's flags come out in
\* the one canonical order.
C7_CanonicalOrder ==
  Returned =>
    /\ StrictlyAscending(assessment.risk_flags)
    /\ StrictlyAscending(assessment.limitations)
    /\ metrics = SampleMetrics =>
         assessment.risk_flags =
           <<"excessive_hard_running", "insufficient_easy_running",
             "insufficient_recovery", "long_run_dominance", "volume_spike">>

\* flags and limitations that the rules appended out of order
C7_Witness ==
  /\ Returned
  /\ {"volume_spike", "long_run_dominance", "insufficient_easy_running"}
       \subseteq FlagSet
  /\ Len(assessment.limitations) >= 2

----------------------------------------------------------------------------
(* Properties of _trend_is_flat_or_decreasing (SpecTrend) *)

\* C8: fewer than 2 points give true; exactly 2 points give last <= previous;
\* 3 or more give last <= the average of the two points before the last,
\* whatever the earlier points are.  [5] is true, [10, 8] is true, [10, 12]
\* is false and [10, 12, 10] is true.
C8_TrendHelper ==
  pc = "done" /\ trend.status = "returned" =>
    LET n == Len(weekly)
    IN /\ n < 2 => trend.value
       /\ n = 2 => (trend.value <=> weekly[2] <= weekly[1])
       /\ n >= 3 =>
            (trend.value <=> 2 * weekly[n] <= weekly[n - 1] + weekly[n - 2])
       /\ weekly = <<500>> => trend.value
       /\ weekly = <<1000, 800>> => trend.value
       /\ weekly = <<1000, 1200>> => ~trend.value
       /\ weekly = <<1000, 1200, 1000>> => trend.value

\* [10, 12, 10]: the last week is below the average of the two before it
C8_Witness ==
  pc = "done" /\ weekly = <<1000, 1200, 1000>> /\ trend.value

----------------------------------------------------------------------------
(* Properties of compute_metrics (SpecMetrics) *)

Computed == snapshot.status = "returned"

\* the runs of the input at or after (latest start_time - lookback_days)
RetainedIndices ==
  {i \in 1..Len(runs_all) :
     TimeGeq(runs_all[i].start_time,
             MinusDays(runs_all[Len(runs_all)].start_time, lookback_days))}

RetainedPositive == {i \in RetainedIndices : runs_all[i].distance_m > 0}

\* C9 as stated: whenever fewer than 3 retained runs have positive distance,
\* zero retained runs (empty input) included, the intensity split is
\* easy_pct = 70.0 and hard_pct = 0.0.
C9_DefaultsAlsoWhenEmpty ==
  Computed /\ Cardinality(RetainedPositive) < 3 =>
    snapshot.easy_pct = 700 /\ snapshot.hard_pct = 0

\* C9 as amended: whenever at least one run is retained and fewer than 3
\* retained runs have positive distance, the intensity split is easy_pct =
\* 70.0 and hard_pct = 0.0; with zero retained runs (empty input) it is
\* easy_pct = 0.0 and hard_pct = 0.0.
C9_DefaultsUnlessEmpty ==
  Computed /\ Cardinality(RetainedPositive) < 3 =>
    IF RetainedIndices = {}
    THEN snapshot.easy_pct = 0 /\ snapshot.hard_pct = 0
    ELSE snapshot.easy_pct = 700 /\ snapshot.hard_pct = 0

\* four runs with distance, two of them older than the lookback window
C9_Witness ==
  /\ Computed
  /\ Cardinality({i \in 1..Len(runs_all) : runs_all[i].distance_m > 0}) = 4
  /\ Cardinality(RetainedPositive) = 2
  /\ snapshot.easy_pct = 700

\* sum of the distances of the runs of s that satisfy keep
SumWhere(s, keep(_)) == SumSeq(Distances(SelectSeq(s, keep)))

\* C10: with at least 3 eligible runs, ties of hard_cut and easy_cut
\* included, the hard distance is the sum over exactly the runs with
\* pace <= hard_cut, the easy distance the sum over exactly the runs with
\* pace >= easy_cut, and every eligible run counts in the total.
C10_BucketsByCutsAlone ==
  Computed /\ snapshot.intensity.branch = "split" =>
    LET split == snapshot.intensity
        eligible(r) == r.distance_m > 0
        fast(r) == eligible(r) /\ PaceLeq(pace_s_per_km(r), split.hard_cut)
        slow(r) == eligible(r) /\ PaceLeq(split.easy_cut, pace_s_per_km(r))
    IN /\ split.hard_m = SumWhere(snapshot.runs, fast)
       /\ split.easy_m = SumWhere(snapshot.runs, slow)
       /\ split.total_m = SumWhere(snapshot.runs, eligible)


----------------------------------------------------------------------------
(* Properties of compute_metrics over a training history (SpecHistory) *)

\* the latest run of the input
Latest == runs_all[Len(runs_all)].start_time

\* start_time is at or after (latest start_time minus days)
Within(i, days) ==
  LET t == runs_all[i].start_time
  IN t.day > Latest.day - days
       \/ (t.day = Latest.day - days /\ t.hour >= Latest.hour)

Retained == {i \in 1..Len(runs_all) : Within(i, lookback_days)}

\* summed distance_m of the runs of the input with index in I
RECURSIVE DistanceOf(_)
DistanceOf(I) ==
  IF I = {} THEN 0
  ELSE LET i == CHOOSE j \in I : TRUE
       IN runs_all[i].distance_m + DistanceOf(I \ {i})

\* h hundredths is x / y rounded to 2 decimals: no hundredth is nearer
Rounds(h, x, y) ==
  /\ 2 * (h * y - 100 * x) <= y
  /\ 2 * (100 * x - h * y) <= y

\* C11: acwr is None exactly when the total retained distance is zero
\* (empty input included); otherwise it is dist_7 / (dist_28 / 4) rounded to
\* 2 decimals, dist_28 the distance of all retained runs and dist_7 that of
\* the retained runs at or after (latest start_time minus 7 days).
C11_AcwrNoneOrRatio ==
  Computed =>
    LET dist_28 == DistanceOf(Retained)
        dist_7 == DistanceOf({i \in Retained : Within(i, 7)})
    IN IF dist_28 = 0
       THEN snapshot.acwr = None
       ELSE /\ snapshot.acwr.t = "float"
            /\ Rounds(snapshot.acwr.n, 4 * dist_7, dist_28)

\* a retained run just outside the 7 days, and a ratio that needs rounding
C11_Witness ==
  /\ Computed
  /\ \E i \in Retained : ~Within(i, 7) /\ runs_all[i].distance_m > 0
                           /\ runs_all[i].start_time.day = Latest.day - 7
  /\ snapshot.acwr.t = "float"
  /\ snapshot.acwr.n * DistanceOf(Retained)
       # 400 * DistanceOf({i \in Retained : Within(i, 7)})

\* the dates on which a retained run started
RunDays == {runs_all[i].start_time.day : i \in Retained}

\* the 14 consecutive days ending on the latest run's date
Last14 == (Latest.day - 13)..Latest.day

\* C12: rest_days_last_14 is the number of calendar days, among the 14
\* consecutive days ending on the latest run's date inclusive, on which no
\* retained run started; several runs on one day count as one run day; for
\* an empty sequence it is 14.
C12_RestDays ==
  Computed =>
    IF runs_all = <<>>
    THEN snapshot.rest_days_last_14 = 14
    ELSE LET run_days == RunDays
         IN snapshot.rest_days_last_14 =
              Cardinality({d \in Last14 : d \notin run_days})

\* two retained runs on one day and a retained run before the 14 days
C12_Witness ==
  /\ Computed
  /\ runs_all # <<>>
  /\ \E i, j \in Retained :
       i # j /\ runs_all[i].start_time.day = runs_all[j].start_time.day
  /\ \E i \in Retained : runs_all[i].start_time.day \notin Last14
  /\ snapshot.rest_days_last_14 = 13

\* C13: back_to_back_runs_last_14 is the number of pairs of consecutive
\* entries, in the ascending list of the distinct dates of the retained runs
\* within the 14 days ending on the latest run's date, that differ by exactly
\* one day (a streak of k consecutive run days counts k - 1); for an empty
\* sequence it is 0.
C13_BackToBack ==
  Computed =>
    IF runs_all = <<>>
    THEN snapshot.back_to_back_runs_last_14 = 0
    ELSE LET run_days == RunDays \cap Last14
         IN snapshot.back_to_back_runs_last_14 =
              Cardinality({d \in run_days : d + 1 \in run_days})

\* a streak of three run days, one of them with two runs
C13_Witness ==
  /\ Computed
  /\ runs_all # <<>>
  /\ \E d \in Last14 : {d, d + 1, d + 2} \subseteq RunDays \cap Last14
  /\ Cardinality(Retained) > Cardinality(RunDays)
  /\ snapshot.back_to_back_runs_last_14 = 2

\* the Monday-start weeks (numbered from the week of day 0) with a retained run
RetainedWeeks == {runs_all[i].start_time.day \div 7 : i \in Retained}

\* the i-th week of the set weeks in ascending order
WeekAt(weeks, i) ==
  CHOOSE w \in weeks : Cardinality({v \in weeks : v < w}) = i - 1

\* C14: weekly_distance and weekly_frequency are parallel lists with one
\* entry per Monday-start week that contains a retained run, in ascending
\* order of week start; entry i holds the summed distance in km (2 decimals)
\* and the number of the retained runs of week i, so the frequencies sum to
\* run_count and every retained run is counted in exactly one week.
C14_WeeklyLists ==
  Computed =>
    LET retained == Retained
        weeks == RetainedWeeks
    IN /\ Len(snapshot.weekly_distance) = Cardinality(weeks)
       /\ Len(snapshot.weekly_frequency) = Cardinality(weeks)
       /\ \A i \in 1..Cardinality(weeks) :
            LET week == WeekAt(weeks, i)
                in_week == {j \in retained :
                              runs_all[j].start_time.day \div 7 = week}
            IN /\ snapshot.weekly_frequency[i] = Cardinality(in_week)
               /\ Rounds(snapshot.weekly_distance[i], DistanceOf(in_week), 1000)
       /\ snapshot.run_count = Cardinality(retained)
       /\ SumSeq(snapshot.weekly_frequency) = snapshot.run_count

\* retained runs on a Sunday and on the Monday after it, in two entries, and
\* a run the lookback drops
C14_Witness ==
  /\ Computed
  /\ runs_all # <<>>
  /\ \E i, j \in Retained : /\ runs_all[i].start_time.day % 7 = 6
                            /\ runs_all[j].start_time.day
                                 = runs_all[i].start_time.day + 1
  /\ Cardinality(Retained) < Len(runs_all)
  /\ snapshot.weekly_frequency = <<1, 1, 1>>
  /\ snapshot.weekly_distance[1] > snapshot.weekly_distance[2]
  /\ snapshot.weekly_distance[2] > 0

----------------------------------------------------------------------------
(* Properties of the volume_spike rule (SpecFlags) *)

Ended == pc = "done" /\ assessment.status # "none"

VolumeSkipText ==
  "Missing acwr and weekly_distance; cannot assess volume spikes reliably."

\* acwr is absent or not a number
AcwrUnusable == metrics.acwr.t \notin NumberTypes

\* weekly_distance is absent, not a list, or empty
WeeklyUnusable ==
  metrics.weekly_distance.t # "list" \/ metrics.weekly_distance.items = <<>>

AcwrSpike == ~AcwrUnusable /\ Hundredths(metrics.acwr) >= 150

\* a list of at least 2 points with prev_week > 0 and
\* last_week >= 1.25 * prev_week
WeeklySpike ==
  /\ metrics.weekly_distance.t = "list"
  /\ Len(metrics.weekly_distance.items) >= 2
  /\ LET items == metrics.weekly_distance.items
         last_week == items[Len(items)]
         prev_week == items[Len(items) - 1]
     IN /\ last_week.t \in NumberTypes
        /\ prev_week.t \in NumberTypes
        /\ Hundredths(prev_week) > 0
        /\ 100 * Hundredths(last_week) >= 125 * Hundredths(prev_week)

WeeklyInvalidText == "weekly_distance values invalid; spike check skipped."

UndertrainingText ==
  "Missing acwr or sufficient weekly_distance; undertraining check may be incomplete."

\* the limitations whose text is about acwr
AcwrLimitations == {VolumeSkipText, UndertrainingText}

\* the rule is skipped exactly when both inputs are unusable; otherwise the
\* flag is raised iff one of the two sub-checks triggers
SkipAndTrigger ==
  IF AcwrUnusable /\ WeeklyUnusable
  THEN /\ VolumeSkipText \in SeqToSet(locals.limitations)
       /\ "volume_spike" \notin SeqToSet(locals.flags)
  ELSE /\ VolumeSkipText \notin SeqToSet(locals.limitations)
       /\ "volume_spike" \in SeqToSet(locals.flags)
            <=> (AcwrSpike \/ WeeklySpike)

\* C15 as stated: the volume_spike rule is skipped, its limitation recorded
\* and no flag raised, exactly when acwr is absent or not a number and
\* weekly_distance is absent, not a list, or empty; in every other case the
\* flag is raised iff acwr is a number >= 1.5 or the last two weekly points
\* show a rise of 25%, so the weekly ratio alone raises the flag while acwr
\* is missing or ill-typed, and in that case no limitation about acwr is
\* recorded.
C15_NoLimitationAboutAcwr ==
  Ended =>
    /\ SkipAndTrigger
    /\ AcwrUnusable /\ WeeklySpike =>
         SeqToSet(locals.limitations) \cap AcwrLimitations = {}

\* C15 as amended: the same, but when the weekly ratio raises the flag
\* while acwr is missing or ill-typed, it is the volume_spike rule that
\* records no limitation; the undertraining rule, which needs acwr too,
\* records its limitation about the missing acwr.
C15_VolumeSpikeSkipAndTrigger ==
  Ended =>
    /\ SkipAndTrigger
    /\ AcwrUnusable /\ WeeklySpike =>
         /\ VolumeSkipText \notin SeqToSet(locals.limitations)
         /\ WeeklyInvalidText \notin SeqToSet(locals.limitations)
         /\ UndertrainingText \in SeqToSet(locals.limitations)

\* the weekly ratio raises the flag while acwr is of another type, and the
\* undertraining limitation is the one about acwr
C15_Witness ==
  /\ Ended
  /\ metrics.acwr = PyStr
  /\ WeeklySpike
  /\ "volume_spike" \in SeqToSet(locals.flags)
  /\ SeqToSet(locals.limitations) \cap AcwrLimitations = {UndertrainingText}

----------------------------------------------------------------------------
(* Properties of the ingestion adapters (SpecIngest) *)

\* C16: the list returned by parse_garmin_csv and the list returned by
\* parse_garmin_fit is in ascending start_time order and contains no run
\* with distance_m <= 0 or duration_s <= 0.
C16_ParsedRunsOrderedAndValid ==
  parsed.status = "returned" =>
    /\ \A i \in 1..(Len(parsed.runs) - 1) :
         TimeGeq(parsed.runs[i + 1].start_time, parsed.runs[i].start_time)
    /\ \A i \in 1..Len(parsed.runs) :
         /\ FlCmp(parsed.runs[i].distance_m, FlInt(0)) > 0
         /\ parsed.runs[i].duration_s > 0

----------------------------------------------------------------------------
(* Properties of the pipeline compute_metrics, evaluate_risk_flags         *)
(* (SpecHistory)                                                           *)

\* a non-empty sequence of valid runs
ValidHistory ==
  /\ runs_all # <<>>
  /\ \A i \in 1..Len(runs_all) :
       runs_all[i].distance_m > 0 /\ runs_all[i].duration_s > 0

\* the call does not raise, and the only limitation is the undertraining
\* one, present exactly when the retained runs are in fewer than 2 weeks
PipelineAssessment ==
  /\ assessment.status = "returned"
  /\ SeqToSet(assessment.limitations) \subseteq {UndertrainingText}
  /\ UndertrainingText \in SeqToSet(assessment.limitations)
       <=> Cardinality(RetainedWeeks) < 2

\* C17 as stated: for a non-empty sequence of valid runs the pipeline does
\* not raise, acwr and longest_run_pct are present with 0 < acwr <= 4 and
\* 0 < longest_run_pct <= 1, and the only limitation that can appear is the
\* undertraining one, exactly when the retained runs fall into fewer than 2
\* distinct weeks.
C17_PipelinePositiveAcwr ==
  ValidHistory =>
    /\ Computed =>
         /\ snapshot.acwr.t = "float"
         /\ snapshot.longest_run_pct.t = "float"
         /\ 0 < snapshot.acwr.n /\ snapshot.acwr.n <= 400
         /\ 0 < snapshot.longest_run_pct.n /\ snapshot.longest_run_pct.n <= 100
    /\ pc = "done" => PipelineAssessment

\* C17 as amended: the same with 0 <= acwr <= 4, acwr being 0.0 when the
\* last 7 days hold so little of the retained distance that the ratio
\* rounds to 0.00.
C17_PipelineAcwrFromZero ==
  ValidHistory =>
    /\ Computed =>
         /\ snapshot.acwr.t = "float"
         /\ snapshot.longest_run_pct.t = "float"
         /\ 0 <= snapshot.acwr.n /\ snapshot.acwr.n <= 400
         /\ 0 < snapshot.longest_run_pct.n /\ snapshot.longest_run_pct.n <= 100
    /\ pc = "done" => PipelineAssessment

\* valid runs over two weeks, the last of them short: acwr is 0.0, the
\* engine returns and records no limitation
C17_Witness ==
  /\ ValidHistory
  /\ pc = "done"
  /\ snapshot.acwr = PyFloat(0)
  /\ assessment.status = "returned"
  /\ assessment.limitations = <<>>
  /\ Cardinality(RetainedWeeks) = 2
====
